---- MODULE Spec2Model ----
(***************************************************************************)
(* A model of projects/ai_image_classifier.py: ImagePreprocessor,          *)
(* CNNLayer and AIImageClassifier.                                         *)
(*                                                                         *)
(* Numbers.  A real value is an exact fraction <<num, den>> with den > 0.  *)
(* float32/float64 rounding is not modelled.  np.exp has no rational       *)
(* value; see Softmax.                                                     *)
(*                                                                         *)
(* Tensors.  An ndarray is [shape |-> <<d1, ..., dn>>, data |-> the        *)
(* row-major flattening].  A "row" is the data along the trailing axis at  *)
(* one position; the entries of one row share a denominator.               *)
(*                                                                         *)
(* Timestamps (datetime.now()) are left out of Prediction and of the       *)
(* report: no claim reads them.                                            *)
(***************************************************************************)
EXTENDS Integers, Sequences, FiniteSets, TLC

VARIABLES
    num_classes,   \* AIImageClassifier.num_classes
    model,         \* AIImageClassifier.model: the four CNNLayer objects
    last           \* the call that has just ended, with its arguments and its
                   \* outcome; op = "none" once the caller has taken the result

vars == <<num_classes, model, last>>

---------------------------------------------------------------------------
(* Bounds of the model *)

\* num_classes ranges over -NegClasses .. MaxClasses
NegClasses == 1
MaxClasses == 13
\* preprocess' target_size is one row of TargetW positions; the code's
\* default is (224, 224)
TargetW == 2
\* top_k ranges over 0 .. MaxTopK
MaxTopK == 3
\* how far argsort's order among equal values may depart from index order
MaxTieShift == 1
\* the longest list given to predict_batch
MaxBatch == 2

---------------------------------------------------------------------------
(* Arithmetic *)

\* Python's None, and a value that is set: an optional value is a sequence
\* of length 0 or 1
None == <<>>
Some(v) == <<v>>

Min(a, b) == IF a <= b THEN a ELSE b
Max(a, b) == IF a >= b THEN a ELSE b

RECURSIVE GCD(_, _)
GCD(a, b) == IF b = 0 THEN a ELSE GCD(b, a % b)

\* a fraction in lowest terms
Reduce(v) ==
    LET g == GCD(IF v[1] < 0 THEN -v[1] ELSE v[1], v[2])
    IN  IF g = 0 THEN v ELSE <<v[1] \div g, v[2] \div g>>

\* comparisons of fractions; equal denominators need no cross-multiplication
Leq(a, b) == IF a[2] = b[2] THEN a[1] <= b[1] ELSE a[1] * b[2] <= b[1] * a[2]
Less(a, b) == IF a[2] = b[2] THEN a[1] < b[1] ELSE a[1] * b[2] < b[1] * a[2]
Same(a, b) == IF a[2] = b[2] THEN a[1] = b[1] ELSE a[1] * b[2] = b[1] * a[2]

RECURSIVE Prod(_)
Prod(s) == IF s = <<>> THEN 1 ELSE Head(s) * Prod(Tail(s))

\* the sum of the numerators of row[lo..hi]
RECURSIVE SumNum(_, _, _)
SumNum(row, lo, hi) ==
    IF lo > hi THEN 0
    ELSE IF lo = hi THEN row[lo][1]
    ELSE SumNum(row, lo, (lo + hi) \div 2) + SumNum(row, ((lo + hi) \div 2) + 1, hi)

\* np.sum over one row (entries of a row share a denominator)
RowSum(row) == IF row = <<>> THEN <<0, 1>> ELSE <<SumNum(row, 1, Len(row)), row[1][2]>>

\* a function on 1..n as a sequence held by value
Array(f) == f \o <<>>

Last(s) == s[Len(s)]
Front(s) == SubSeq(s, 1, Len(s) - 1)

\* the row of tensor x at position p (1-based, row-major)
Row(x, p) ==
    LET c == Last(x.shape)
    IN  Array([i \in 1..c |-> x.data[(p - 1) * c + i]])

---------------------------------------------------------------------------
(* ImagePreprocessor *)

\* normalize: image.astype(np.float32) / 255.0
normalize(image) ==
    [shape |-> image.shape,
     data  |-> Array([j \in 1..Len(image.data) |->
                        <<image.data[j][1], image.data[j][2] * 255>>])]

\* resize: np.resize(image, (*size, channels)) repeats the flattened source
\* cyclically until the new shape is filled
resize(image, size) ==
    LET c     == IF Len(image.shape) > 2 THEN image.shape[3] ELSE 1
        shp   == size \o <<c>>
        total == Prod(shp)
        n     == Len(image.data)
    IN  [shape |-> shp,
         data  |-> Array([j \in 1..total |-> image.data[((j - 1) % n) + 1]])]

preprocess(image, target_size) == normalize(resize(image, target_size))

---------------------------------------------------------------------------
(* CNNLayer *)

\* CNNLayer.__init__: stores its arguments; weights and bias start unset
CNNLayer(filters, kernel_size, activation) ==
    [filters |-> filters, kernel_size |-> kernel_size, activation |-> activation,
     weights |-> None, bias |-> None]

\* forward, lines 53-56: the first call sets weights and bias.  np.random.randn
\* raises ValueError on a negative dimension, before anything is assigned.
\* The random values of weights are never read by forward: only their shape
\* is kept.
MaterializeRaises(layer) ==
    layer.weights = None /\ (layer.filters < 0 \/ layer.kernel_size < 0)

\* a faulty variant: the `is None` test of line 53 left out
MaterializeAlways(layer, x) ==
    [layer EXCEPT
        !.weights = Some(<<layer.filters, Last(x.shape),
                           layer.kernel_size, layer.kernel_size>>),
        !.bias    = Some(Array([i \in 1..layer.filters |-> 0]))]

Materialize(layer, x) ==
    IF layer.weights = None
    THEN [layer EXCEPT
            !.weights = Some(<<layer.filters, Last(x.shape),
                               layer.kernel_size, layer.kernel_size>>),
            !.bias    = Some(Array([i \in 1..layer.filters |-> 0]))]
    ELSE layer

\* forward, lines 59-61: output[..., i] = np.sum(x, axis=-1) * 0.1 + bias[i],
\* s being np.sum over the row
Affine(bias, s) ==
    Array([i \in 1..Len(bias) |-> <<s[1] + bias[i] * (s[2] * 10), s[2] * 10>>])

\* a faulty variant: output channel i reads one input channel, not the sum
LinearPerChannel(bias, row) ==
    Array([i \in 1..Len(bias) |->
        <<row[((i - 1) % Len(row)) + 1][1] + bias[i] * (row[1][2] * 10), row[1][2] * 10>>])

Linear(bias, row) == Affine(bias, RowSum(row))

\* forward, line 64: np.maximum(0, output)
Relu(row) == Array([i \in 1..Len(row) |-> <<Max(0, row[i][1]), row[i][2]>>])

\* forward, lines 66-67: exp(v - max) / sum(exp(v - max)) along the row.
\* exp is strictly increasing and exp(0) = 1.  The weight of an entry is
\* modelled as 2^(number of distinct row values below it): equal entries get
\* equal weights, greater entries greater weights, and a row whose entries
\* are all equal gets weight 1 everywhere, so 1/n each, as in the code.
ExpWeights(row) ==
    Array([i \in 1..Len(row) |->
        <<2 ^ Cardinality({row[j][1] : j \in {k \in 1..Len(row) : row[k][1] < row[i][1]}}), 1>>])

Normalized(w, z) == Array([i \in 1..Len(w) |-> <<w[i][1], z[1]>>])

SoftmaxOf(w) == Normalized(w, RowSum(w))

Softmax(row) == SoftmaxOf(ExpWeights(row))

Activate(activation, row) ==
    IF activation = "relu" THEN Relu(row)
    ELSE IF activation = "softmax" THEN Softmax(row)
    ELSE row

\* the tensor of shape (..., F) whose rows are rows
FromRows(lead, F, rows) ==
    [shape |-> lead \o <<F>>,
     data  |-> Array([j \in 1..(Len(rows) * F) |->
                        rows[((j - 1) \div F) + 1][((j - 1) % F) + 1]])]

\* forward, lines 59-69, once weights and bias are set.  np.zeros raises on a
\* negative dimension; np.max raises on a row of length 0.
Transform(l2, x, P) ==
    IF l2.filters < 0 \/ (l2.activation = "softmax" /\ l2.filters = 0 /\ P > 0)
    THEN [layer |-> l2, out |-> None, raised |-> "ValueError"]
    ELSE [layer  |-> l2,
          out    |-> Some(FromRows(Front(x.shape), l2.filters,
                        Array([p \in 1..P |->
                            Activate(l2.activation, Linear(l2.bias[1], Row(x, p)))]))),
          raised |-> ""]

\* CNNLayer.forward: the layer after the call, the output, and the exception
\* raised ("" when the call returns)
forward(layer, x) ==
    IF MaterializeRaises(layer)
    THEN [layer |-> layer, out |-> None, raised |-> "ValueError"]
    ELSE Transform(Materialize(layer, x), x, Prod(Front(x.shape)))

---------------------------------------------------------------------------
(* AIImageClassifier *)

\* __init__, lines 76-79
classes ==
    <<"Airplane", "Automobile", "Bird", "Cat", "Deer",
      "Dog", "Frog", "Horse", "Ship", "Truck">>

\* _build_model
build_model(n) ==
    <<CNNLayer(32, 3, "relu"),
      CNNLayer(64, 3, "relu"),
      CNNLayer(128, 3, "relu"),
      CNNLayer(n, 1, "softmax")>>

\* predict lines 96, 123: preprocess with the default target_size
TargetSize == <<1, TargetW>>

\* predict lines 99-101 (and 125-127): x = layer.forward(x) for each layer in
\* turn, from layer i on.  m is the model so far, called the layers forward
\* has been called on, outs their outputs.  An exception ends the loop; what
\* the layers before it (and the raising layer itself) assigned stays.
RECURSIVE RunLayers(_, _, _, _)
AfterLayer(m, i, outs, r) ==
    IF r.raised # ""
    THEN [model |-> [m EXCEPT ![i] = r.layer], x |-> None, raised |-> r.raised,
          called |-> 1..i, outs |-> outs]
    ELSE RunLayers([m EXCEPT ![i] = r.layer], r.out[1], i + 1, Append(outs, r.out[1]))

RunLayers(m, x, i, outs) ==
    IF i > Len(m)
    THEN [model |-> m, x |-> Some(x), raised |-> "", called |-> 1..Len(m), outs |-> outs]
    ELSE AfterLayer(m, i, outs, forward(m[i], x))

\* predict lines 96-101: preprocess, then the forward pass
Pipeline(m, image) == RunLayers(m, preprocess(image, TargetSize), 1, <<>>)

\* lines 104-105 (and 129-130): x.flatten()[:num_classes]; a negative stop
\* counts from the end
Truncate(flat, n) ==
    IF n >= 0 THEN SubSeq(flat, 1, Min(n, Len(flat)))
    ELSE SubSeq(flat, 1, Max(0, Len(flat) + n))

\* np.argmax: the first index (0-based) of the greatest entry
Argmax(v) ==
    (CHOOSE i \in 1..Len(v) :
        /\ \A j \in 1..Len(v) : Leq(v[j], v[i])
        /\ \A j \in 1..(i - 1) : Less(v[j], v[i])) - 1

\* a faulty variant: an index beyond the table is clamped to the last class
ClassLabelClamped(idx) == classes[Min(idx, Len(classes) - 1) + 1]

\* predict line 112
ClassLabel(idx) == IF idx < Len(classes) THEN classes[idx + 1] ELSE "Unknown"

\* float(predictions[idx])
Confidence(v, idx) == Reduce(v[idx + 1])

\* predict lines 108-115
TopOne(predictions, class_idx) ==
    [raised |-> "", probs |-> predictions, class_idx |-> class_idx,
     pred |-> Some([class_name |-> ClassLabel(class_idx),
                    confidence |-> Confidence(predictions, class_idx)])]

\* np.argmax raises ValueError on an empty sequence
Classify(predictions) ==
    IF predictions = <<>>
    THEN [raised |-> "ValueError", probs |-> predictions, class_idx |-> -1, pred |-> None]
    ELSE TopOne(predictions, Argmax(predictions))

\* predict lines 104-115 on the flattened output of the last layer
PredictFrom(n, flat) == Classify(Truncate(flat, n))

\* predict lines 104-115 after the forward pass run
PredictAfter(n, run) ==
    IF run.raised # ""
    THEN [raised |-> run.raised, probs |-> <<>>, class_idx |-> -1, pred |-> None]
         @@ [model |-> run.model, called |-> run.called, outs |-> run.outs]
    ELSE PredictFrom(n, run.x[1].data)
         @@ [model |-> run.model, called |-> run.called, outs |-> run.outs]

\* AIImageClassifier.predict
predict(m, n, image) == PredictAfter(n, Pipeline(m, image))

\* np.argsort(v): the indices (0-based) in ascending order of value.  The
\* default kind is not stable: the order among equal values is whatever the
\* build's sort produces.  tie picks that order: among equal values the
\* indices come in the order tie, tie+1, ..., n-1, 0, ..., tie-1; tie = 0 is
\* index order, which numpy's insertion sort of short arrays produces.
SortPos(v, tie, i) ==
    Cardinality({j \in 1..Len(v) :
        \/ Less(v[j], v[i])
        \/ Same(v[j], v[i]) /\ (j - 1 - tie) % Len(v) < (i - 1 - tie) % Len(v)}) + 1

Ordered(n, pos) == Array([p \in 1..n |-> (CHOOSE i \in 1..n : pos[i] = p) - 1])

ArgSort(v, tie) == Ordered(Len(v), Array([i \in 1..Len(v) |-> SortPos(v, tie, i)]))

\* s[-k:] of a Python sequence
Tail_k(s, k) ==
    IF k = 0 THEN s
    ELSE IF k > 0 THEN SubSeq(s, Max(1, Len(s) - k + 1), Len(s))
    ELSE SubSeq(s, Min(Len(s), -k) + 1, Len(s))

\* s[::-1]
Reversed(s) == Array([i \in 1..Len(s) |-> s[Len(s) + 1 - i]])

\* a faulty variant: the reversal [::-1] left out
TopIndicesAscending(predictions, top_k, tie) == Tail_k(ArgSort(predictions, tie), top_k)

\* line 133: np.argsort(predictions)[-top_k:][::-1]
TopIndices(predictions, top_k, tie) == Reversed(Tail_k(ArgSort(predictions, tie), top_k))

\* a faulty variant: the class is read at idx - 1 (which wraps around at 0)
RECURSIVE TopResultsOffByOne(_, _)
TopResultsOffByOne(predictions, top_indices) ==
    IF top_indices = <<>> THEN <<>>
    ELSE
      LET idx == Head(top_indices)
          rest == TopResultsOffByOne(predictions, Tail(top_indices))
      IN  IF idx < Len(classes)
          THEN <<[class_name |-> classes[((idx - 1) % Len(classes)) + 1],
                  confidence |-> Confidence(predictions, idx)]>> \o rest
          ELSE rest

\* lines 135-144: one Prediction per selected index below len(classes)
RECURSIVE TopResults(_, _)
TopResults(predictions, top_indices) ==
    IF top_indices = <<>> THEN <<>>
    ELSE
      LET idx == Head(top_indices)
          rest == TopResults(predictions, Tail(top_indices))
      IN  IF idx < Len(classes)
          THEN <<[class_name |-> classes[idx + 1],
                  confidence |-> Confidence(predictions, idx)]>> \o rest
          ELSE rest

\* lines 133-144
Ranked(predictions, top_indices) ==
    [probs |-> predictions, top_indices |-> top_indices,
     preds |-> TopResults(predictions, top_indices)]

Select(predictions, top_k, tie) == Ranked(predictions, TopIndices(predictions, top_k, tie))

\* get_top_predictions lines 129-144 on the flattened output of the last layer
TopFrom(n, flat, top_k, tie) == Select(Truncate(flat, n), top_k, tie)

\* get_top_predictions lines 129-144 after the forward pass run
TopAfter(n, run, top_k, tie) ==
    IF run.raised # ""
    THEN [model |-> run.model, raised |-> run.raised, probs |-> <<>>,
          top_indices |-> <<>>, preds |-> <<>>, called |-> run.called]
    ELSE TopFrom(n, run.x[1].data, top_k, tie)
         @@ [model |-> run.model, raised |-> "", called |-> run.called]

\* AIImageClassifier.get_top_predictions
get_top_predictions(m, n, image, top_k, tie) == TopAfter(n, Pipeline(m, image), top_k, tie)

\* analyze_image lines 150-165; top_predictions[0] raises IndexError on an
\* empty list
Pair(p) == [class |-> p.class_name, confidence |-> p.confidence]

Report(m, n, top) ==
    IF top.raised # ""
    THEN top @@ [report |-> None]
    ELSE IF top.preds = <<>>
    THEN [top EXCEPT !.raised = "IndexError"] @@ [report |-> None]
    ELSE top @@
         [report |-> Some(
            [primary_prediction |-> Pair(top.preds[1]),
             all_predictions    |-> Array([i \in 1..Len(top.preds) |-> Pair(top.preds[i])]),
             model_info         |-> [num_classes |-> n, architecture |-> "CNN",
                                     layers |-> Len(m)]])]

\* AIImageClassifier.analyze_image
analyze_image(m, n, image, tie) == Report(m, n, get_top_predictions(m, n, image, 3, tie))

\* AIImageClassifier.predict_batch: [self.predict(img) for img in images], from
\* image i on.  An exception ends the comprehension and no list is returned.
RECURSIVE BatchFrom(_, _, _, _, _)
AfterPredict(n, images, i, acc, r) ==
    IF r.raised # ""
    THEN [model |-> r.model, raised |-> r.raised, preds |-> <<>>,
          called |-> acc.called \cup r.called]
    ELSE BatchFrom(r.model, n, images, i + 1,
                   [preds |-> Append(acc.preds, r.pred[1]),
                    called |-> acc.called \cup r.called])

BatchFrom(m, n, images, i, acc) ==
    IF i > Len(images)
    THEN [model |-> m, raised |-> "", preds |-> acc.preds, called |-> acc.called]
    ELSE AfterPredict(n, images, i, acc, predict(m, n, images[i]))

NoResults == [preds |-> <<>>, called |-> {}]

\* a faulty variant: the last image is left out
predict_batch_short(m, n, images) == BatchFrom(m, n, Front(images), 1, NoResults)
predict_batch(m, n, images) == BatchFrom(m, n, images, 1, NoResults)

---------------------------------------------------------------------------
(* The callers' inputs *)

Img(shape, pixels) ==
    [shape |-> shape, data |-> Array([j \in 1..Len(pixels) |-> <<pixels[j], 1>>])]

\* images of shape (H, W, 3) and (H, W)
Images ==
    { Img(<<1, 1, 3>>, <<0, 0, 0>>),
      Img(<<2, 1, 3>>, <<255, 0, 128, 40, 50, 60>>),
      Img(<<1, 2>>, <<255, 7>>) }

\* tensors given to a layer's forward directly
DirectInputs ==
    { Img(<<2>>, <<1, 2>>),
      Img(<<1, 2>>, <<-3, 1>>) }

\* the layers whose forward is also called directly: the first layer and the
\* softmax layer
DirectLayers == {1, 4}

ClassCounts == (0 - NegClasses)..MaxClasses
TopKs == 0..MaxTopK
Ties == 0..MaxTieShift

RECURSIVE SeqsUpTo(_, _)
SeqsUpTo(S, k) ==
    IF k = 0 THEN {<<>>}
    ELSE LET shorter == SeqsUpTo(S, k - 1)
         IN  shorter \cup {Append(q, e) : q \in {t \in shorter : Len(t) = k - 1}, e \in S}

Batches == SeqsUpTo(Images, MaxBatch)

\* flattened last-layer outputs for the ranking code alone: n entries, all
\* equal or with one or two raised entries (equal or not), followed by one
\* greater entry that [:num_classes] cuts off
Vec(n, a, b, va) ==
    Array([i \in 1..(n + 1) |->
        IF i = n + 1 THEN <<3, 4>>
        ELSE IF i = a THEN <<va, 4>>
        ELSE IF i = b THEN <<1, 4>>
        ELSE <<0, 4>>])

Vectors(n) == {Vec(n, a, b, va) : a \in 1..n, b \in 0..n, va \in 0..2}

---------------------------------------------------------------------------
(* State machine *)

NoCall ==
    [op |-> "none", layer |-> 0, in_ch |-> 0, images |-> <<>>, flat |-> <<>>,
     top_k |-> 0, tie |-> 0, before |-> <<>>, called |-> {}, raised |-> "",
     out |-> None, uniform |-> TRUE, probs |-> <<>>, class_idx |-> -1,
     top_indices |-> <<>>, preds |-> <<>>, report |-> None]

\* channel count of the tensor that reaches the first layer for an image
ImageChannels(image) == IF Len(image.shape) > 2 THEN image.shape[3] ELSE 1

\* whether every row of every tensor of outs has all its entries equal
RowsUniform(outs) ==
    \A k \in 1..Len(outs) :
        \A p \in 1..Prod(Front(outs[k].shape)) :
            \A i \in 1..Last(outs[k].shape) : Same(Row(outs[k], p)[i], Row(outs[k], p)[1])

\* AIImageClassifier(num_classes): __init__ checks nothing
Init ==
    /\ num_classes \in ClassCounts
    /\ model = build_model(num_classes)
    /\ last = NoCall

Ready == last.op = "none"

\* classifier.model[l - 1].forward(x)
Forward(l, x) ==
    /\ Ready
    /\ \E r \in {forward(model[l], x)} :
           /\ model' = [model EXCEPT ![l] = r.layer]
           /\ last' = [NoCall EXCEPT !.op = "forward", !.layer = l,
                          !.in_ch = Last(x.shape), !.before = model, !.called = {l},
                          !.raised = r.raised, !.out = r.out]
    /\ UNCHANGED num_classes

\* classifier.predict(image)
Predict(image) ==
    /\ Ready
    /\ \E r \in {predict(model, num_classes, image)} :
           /\ model' = r.model
           /\ last' = [NoCall EXCEPT !.op = "predict", !.layer = 1,
                          !.in_ch = ImageChannels(image), !.images = <<image>>,
                          !.before = model, !.called = r.called, !.raised = r.raised,
                          !.uniform = RowsUniform(r.outs), !.probs = r.probs,
                          !.class_idx = r.class_idx,
                          !.preds = r.pred]
    /\ UNCHANGED num_classes

\* classifier.predict_batch(images)
PredictBatch(images) ==
    /\ Ready
    /\ \E r \in {predict_batch(model, num_classes, images)} :
           /\ model' = r.model
           /\ last' = [NoCall EXCEPT !.op = "predict_batch", !.images = images,
                          !.before = model, !.called = r.called, !.raised = r.raised,
                          !.preds = r.preds]
    /\ UNCHANGED num_classes

\* classifier.get_top_predictions(image, top_k)
GetTopPredictions(image, top_k, tie) ==
    /\ Ready
    /\ \E r \in {get_top_predictions(model, num_classes, image, top_k, tie)} :
           /\ model' = r.model
           /\ last' = [NoCall EXCEPT !.op = "get_top_predictions", !.layer = 1,
                          !.in_ch = ImageChannels(image), !.images = <<image>>,
                          !.top_k = top_k, !.tie = tie, !.before = model,
                          !.called = r.called, !.raised = r.raised, !.probs = r.probs,
                          !.top_indices = r.top_indices, !.preds = r.preds]
    /\ UNCHANGED num_classes

\* classifier.analyze_image(image)
AnalyzeImage(image, tie) ==
    /\ Ready
    /\ \E r \in {analyze_image(model, num_classes, image, tie)} :
           /\ model' = r.model
           /\ last' = [NoCall EXCEPT !.op = "analyze_image", !.layer = 1,
                          !.in_ch = ImageChannels(image), !.images = <<image>>,
                          !.top_k = 3, !.tie = tie, !.before = model,
                          !.called = r.called, !.raised = r.raised, !.probs = r.probs,
                          !.top_indices = r.top_indices, !.preds = r.preds,
                          !.report = r.report]
    /\ UNCHANGED num_classes

\* the caller takes the result (or the exception) and goes on
Resume ==
    /\ ~Ready
    /\ last' = NoCall
    /\ UNCHANGED <<num_classes, model>>

Next ==
    \/ \E l \in DirectLayers, x \in DirectInputs : Forward(l, x)
    \/ \E image \in Images : Predict(image)
    \/ \E images \in Batches : PredictBatch(images)
    \/ \E image \in Images, top_k \in TopKs, tie \in Ties : GetTopPredictions(image, top_k, tie)
    \/ \E image \in Images, tie \in Ties : AnalyzeImage(image, tie)
    \/ Resume

Spec == Init /\ [][Next]_vars

---------------------------------------------------------------------------
(* The ranking code alone, lines 104-115 and 129-144, on any flattened     *)
(* last-layer output                                                       *)

RankPredict(flat) ==
    /\ Ready
    /\ \E r \in {PredictFrom(num_classes, flat)} :
           last' = [NoCall EXCEPT !.op = "predict", !.flat = flat, !.before = model,
                       !.raised = r.raised, !.probs = r.probs, !.class_idx = r.class_idx,
                       !.preds = r.pred]
    /\ UNCHANGED <<num_classes, model>>

RankTop(flat, top_k, tie) ==
    /\ Ready
    /\ \E r \in {TopFrom(num_classes, flat, top_k, tie)} :
           last' = [NoCall EXCEPT !.op = "get_top_predictions", !.flat = flat,
                       !.top_k = top_k, !.tie = tie, !.before = model,
                       !.probs = r.probs, !.top_indices = r.top_indices, !.preds = r.preds]
    /\ UNCHANGED <<num_classes, model>>

InitRank ==
    /\ num_classes \in 1..MaxClasses
    /\ model = build_model(num_classes)
    /\ last = NoCall

NextRank ==
    \/ \E flat \in Vectors(num_classes) : RankPredict(flat)
    \/ \E flat \in Vectors(num_classes), top_k \in TopKs, tie \in Ties : RankTop(flat, top_k, tie)
    \/ Resume

SpecRank == InitRank /\ [][NextRank]_vars

---------------------------------------------------------------------------
(* Properties *)

Called == last.op # "none"
Valid == num_classes >= 1

\* the channel count of the tensor the call recorded in `last` gave to layer l
FedChannels(l) == IF l = last.layer THEN last.in_ch ELSE model[l - 1].filters

\* layer l had weights for another channel count than the call gave it
Mismatch(l) ==
    /\ l \in last.called
    /\ last.layer # 0
    /\ last.before[l].weights # None
    /\ last.before[l].weights[1][2] # FedChannels(l)

\* the selected indices that get_top_predictions keeps, in order
InTable(idx) == idx < Len(classes)
Kept == SelectSeq(last.top_indices, InTable)

UniqueMax(v) == \E i \in 1..Len(v) : \A j \in 1..Len(v) : j # i => Less(v[j], v[i])

\* C1: a classifier with num_classes <= 0, or a layer with filters <= 0, is
\* rejected by its constructor, so no call is ever made on such an object.
OrigC1 ==
    Called => (num_classes >= 1 /\ \A l \in 1..Len(model) : model[l].filters >= 1)

\* C2: a forward call on a layer whose weights were materialized for C
\* channels, with an input of another channel count, raises: it gives no
\* output, and predict gives no Prediction (on a classifier with
\* num_classes >= 1, whose calls raise for no other reason).
OrigC2 ==
    \A l \in 1..Len(model) :
        (Valid /\ Mismatch(l)) => (last.raised # "" /\ last.out = None /\ last.preds = <<>>)

\* The steps of C3.  In every step and for every layer: filters, kernel_size and
\* activation stay; weights and bias that are set stay as they are; unset
\* weights are set only by a forward call on that layer, together with the
\* bias; a forward call on a layer with unset weights sets them (a layer
\* with a negative filters or kernel_size, which randn rejects, apart); a
\* layer no forward call reaches stays as it is.  Initially nothing is set.
C3Step ==
    \A l \in 1..Len(model) :
        /\ model'[l].filters = model[l].filters
        /\ model'[l].kernel_size = model[l].kernel_size
        /\ model'[l].activation = model[l].activation
        /\ model[l].weights # None =>
              (model'[l].weights = model[l].weights /\ model'[l].bias = model[l].bias)
        /\ (model[l].weights = None /\ model'[l].weights # None) =>
              (l \in last'.called /\ model'[l].bias # None)
        /\ (model[l].weights = None /\ l \in last'.called
                /\ model[l].filters >= 0 /\ model[l].kernel_size >= 0) =>
              (model'[l].weights # None /\ model'[l].bias # None)
        /\ l \notin last'.called => model'[l] = model[l]

\* C3: weights and bias are unset at first, and every step is as above.
WeightsSetOnceThenFrozen ==
    /\ \A l \in 1..Len(model) : model[l].weights = None /\ model[l].bias = None
    /\ [][C3Step]_vars

\* C3's case: a call reached a layer whose weights were set for another
\* channel count, and the layer is as it was
WitnessC3 ==
    \E l \in 1..Len(model) : Mismatch(l) /\ model[l] = last.before[l]

\* C4: for 0 <= top_k <= num_classes (and num_classes >= 1),
\* get_top_predictions returns at most
\* top_k results: min(top_k, num_classes) less the selected indices that are
\* >= len(classes).
OrigC4 ==
    (last.op = "get_top_predictions" /\ Valid
        /\ 0 <= last.top_k /\ last.top_k <= num_classes) =>
        /\ last.raised = ""
        /\ Len(last.preds) <= last.top_k
        /\ Len(last.preds) = Min(last.top_k, num_classes)
                               - (Len(last.top_indices) - Len(Kept))

\* C5: for top_k >= 1 (and num_classes >= 1) the results of get_top_predictions are in
\* non-increasing order of confidence, and the selected indices are
\* min(top_k, num_classes) distinct indices of the first num_classes entries,
\* in non-increasing order of value, such that no other index has a value
\* greater than a selected one.
TopKOrdered ==
    (last.op = "get_top_predictions" /\ Valid /\ last.top_k >= 1) =>
        /\ last.raised = ""
        /\ \A i \in 1..(Len(last.preds) - 1) :
              Leq(last.preds[i + 1].confidence, last.preds[i].confidence)
        /\ Len(last.top_indices) = Min(last.top_k, Len(last.probs))
        /\ \A i \in 1..Len(last.top_indices) :
              /\ last.top_indices[i] \in 0..(Len(last.probs) - 1)
              /\ \A j \in 1..Len(last.top_indices) :
                    i < j => /\ last.top_indices[i] # last.top_indices[j]
                             /\ Leq(last.probs[last.top_indices[j] + 1],
                                    last.probs[last.top_indices[i] + 1])
              /\ \A u \in 0..(Len(last.probs) - 1) :
                    (\A j \in 1..Len(last.top_indices) : last.top_indices[j] # u) =>
                        Leq(last.probs[u + 1], last.probs[last.top_indices[i] + 1])

\* C5's case: two results of strictly decreasing confidence, and an entry
\* that was not selected
WitnessC5 ==
    /\ last.op = "get_top_predictions"
    /\ last.top_k >= 2
    /\ Len(last.preds) >= 2
    /\ Less(last.preds[2].confidence, last.preds[1].confidence)
    /\ Len(last.top_indices) < Len(last.probs)

\* C6: for num_classes >= 3 analyze_image returns, without raising, a report
\* with exactly 3 all_predictions whose first equals primary_prediction.
OrigC6 ==
    (last.op = "analyze_image" /\ num_classes >= 3) =>
        /\ last.raised = ""
        /\ last.report # None
        /\ Len(last.report[1].all_predictions) = 3
        /\ last.report[1].primary_prediction = last.report[1].all_predictions[1]

\* C7: for every num_classes >= 1, an index >= len(classes) raises nothing: predict names the class
\* classes[index] when index < len(classes) and "Unknown" otherwise;
\* get_top_predictions returns exactly the selected indices below
\* len(classes), in their order, each with its own class and value.
OverflowNotEscalated ==
    /\ (last.op = "predict" /\ Valid) =>
          /\ last.raised = ""
          /\ Len(last.preds) = 1
          /\ last.preds[1].class_name =
                (IF last.class_idx < Len(classes)
                 THEN classes[last.class_idx + 1] ELSE "Unknown")
    /\ (last.op = "get_top_predictions" /\ Valid) =>
          /\ last.raised = ""
          /\ Len(last.preds) = Len(Kept)
          /\ \A i \in 1..Len(Kept) :
                /\ last.preds[i].class_name = classes[Kept[i] + 1]
                /\ last.preds[i].confidence = Reduce(last.probs[Kept[i] + 1])

\* C7's case: predict selected an index beyond the class table
WitnessC7 ==
    /\ last.op = "predict"
    /\ last.class_idx >= Len(classes)
    /\ last.preds[1].class_name = "Unknown"

\* C8: for num_classes >= 1, predict_batch returns one Prediction per image, in order, each equal
\* to what predict returns for that image alone, on the classifier as it
\* was before the batch and on a classifier no call was ever made on; so
\* does a single predict.
BatchIndependent ==
    /\ (last.op = "predict_batch" /\ Valid) =>
          /\ last.raised = ""
          /\ Len(last.preds) = Len(last.images)
          /\ \A i \in 1..Len(last.images) :
                /\ <<last.preds[i]>> = predict(last.before, num_classes, last.images[i]).pred
                /\ <<last.preds[i]>> =
                      predict(build_model(num_classes), num_classes, last.images[i]).pred
    /\ (last.op = "predict" /\ Valid /\ last.images # <<>>) =>
          last.preds = predict(build_model(num_classes), num_classes, last.images[1]).pred

\* C8's case: a batch of two different images on a classifier that earlier
\* calls have used
WitnessC8 ==
    /\ last.op = "predict_batch"
    /\ num_classes >= 2
    /\ Len(last.images) = 2
    /\ last.images[1] # last.images[2]
    /\ last.before[1].weights # None
    /\ Len(last.preds) = 2

\* C9: for 1 <= num_classes <= len(classes) and top_k >= 1 the first result
\* of get_top_predictions has the class_name and the confidence of
\* predict's result for the same image, ties included.
OrigC9 ==
    (last.op = "get_top_predictions" /\ last.images # <<>>
        /\ 1 <= num_classes /\ num_classes <= Len(classes) /\ last.top_k >= 1) =>
        /\ last.raised = ""
        /\ last.preds # <<>>
        /\ <<last.preds[1]>> = predict(last.before, num_classes, last.images[1]).pred

\* C9 as amended: the first result has the confidence of predict's result,
\* and its class_name when one entry alone is the greatest.
TopAgreesUpToTies ==
    (last.op = "get_top_predictions" /\ last.images # <<>>
        /\ 1 <= num_classes /\ num_classes <= Len(classes) /\ last.top_k >= 1) =>
        /\ last.raised = ""
        /\ last.preds # <<>>
        /\ \E p \in {predict(last.before, num_classes, last.images[1])} :
              /\ p.raised = ""
              /\ last.preds[1].confidence = p.pred[1].confidence
              /\ UniqueMax(last.probs) => last.preds[1].class_name = p.pred[1].class_name

\* C9's case: one entry alone is the greatest, and the two agree on it
WitnessC9 ==
    /\ last.op = "get_top_predictions"
    /\ last.images # <<>>
    /\ last.top_k >= 1
    /\ UniqueMax(last.probs)
    /\ last.preds # <<>>
    /\ last.preds[1].class_name = classes[1]

\* C10: for num_classes >= 1, every image and whatever was called before, after every layer
\* the entries of each row are equal, the first num_classes entries of the
\* flattened output are equal, and predict returns index 0: classes[0]
\* with confidence 1/num_classes.
PredictIgnoresImage ==
    (last.op = "predict" /\ Valid) =>
        /\ last.raised = ""
        /\ last.uniform
        /\ Len(last.probs) = num_classes
        /\ \A i \in 1..Len(last.probs) : Same(last.probs[i], last.probs[1])
        /\ last.class_idx = 0
        /\ last.preds = <<[class_name |-> classes[1], confidence |-> <<1, num_classes>>]>>

\* C10's case: predict on an image that is not all zero, on a classifier
\* that earlier calls have used
WitnessC10 ==
    /\ last.op = "predict"
    /\ num_classes >= 2
    /\ last.before[1].weights # None
    /\ \E j \in 1..Len(last.images[1].data) : last.images[1].data[j][1] # 0
    /\ last.preds # <<>>

====
